---- MODULE Spec2Model ----
(***************************************************************************)
(* Model of src/script.js: the MangaTracker record store (titles, reading  *)
(* sessions, bookmarks, history, persisted as one JSON blob in             *)
(* localStorage) and the UIController session timer that drives it.        *)
(*                                                                         *)
(* Representation:                                                         *)
(*   - a time stamp (new Date().toISOString(), Date.now()) is the reading  *)
(*     of the clock `now`, a natural number; ISO strings of one era order  *)
(*     as their instants do;                                               *)
(*   - an id is the pair <<clock reading, Math.random() draw>>, as         *)
(*     generateId concatenates the two; NoId (<<>>) is null;               *)
(*   - a text (title, author, tag, query) is a sequence of characters;     *)
(*   - a nullable number uses NoTime (-1) for null; totalChapters uses 0   *)
(*     for null, which the code cannot tell apart (`|| null`, `&&`);       *)
(*   - a nullable record (a return value) is <<>> for null, <<rec>> else;  *)
(*   - activeTimer, a reference to a session object of the store, is the   *)
(*     position of that session in data.readingSessions, 0 for null.       *)
(***************************************************************************)
EXTENDS Integers, Sequences, FiniteSets, TLC

(***************************************************************************)
(* Bounds of the model.                                                    *)
(***************************************************************************)
MaxTime == 1
MaxManga == 2
MaxSessions == 2
MaxHistory == 1
MaxChapter == 2
HistRuns == 102
MaxMinutes == 2
MaxBookmarks == 1
MaxUIHistory == 3

(***************************************************************************)
(* Program constants.                                                      *)
(***************************************************************************)
HistoryCap == 100
DefaultDailyGoal == 5

NoId == <<>>
NoTime == -1
Null == <<>>

(***************************************************************************)
(* Generic sequence helpers (Array.prototype.findIndex / filter / slice).  *)
(***************************************************************************)
Min(a, b) == IF a < b THEN a ELSE b

\* arr.slice(0, n)
Take(s, n) == SubSeq(s, 1, Min(n, Len(s)))

\* arr.splice(i, 1) applied to position i (1-based): the remaining array
RemoveAt(s, i) == SubSeq(s, 1, i - 1) \o SubSeq(s, i + 1, Len(s))

\* arr.findIndex(x => x.id === id), 1-based, 0 when absent (-1 in the code)
FindIndexById(s, id) ==
    IF \E i \in 1..Len(s) : s[i].id = id
    THEN CHOOSE i \in 1..Len(s) :
            /\ s[i].id = id
            /\ \A j \in 1..(i - 1) : s[j].id # id
    ELSE 0

(***************************************************************************)
(* Texts: String.prototype.toLowerCase and String.prototype.includes.      *)
(***************************************************************************)
LowerChar(c) ==
    CASE c = "S" -> "s"
      [] c = "W" -> "w"
      [] c = "A" -> "a"
      [] OTHER -> c

ToLowerCase(t) == [i \in 1..Len(t) |-> LowerChar(t[i])]

Includes(t, q) ==
    \E i \in 0..(Len(t) - Len(q)) : SubSeq(t, i + 1, i + Len(q)) = q

(***************************************************************************)
(* MangaTracker: the document and its default content.                     *)
(***************************************************************************)
DefaultTags == << "Action", "Romance", "Comedy", "Drama", "Fantasy", "Sci-Fi" >>

DefaultSettings ==
    [dailyGoal |-> DefaultDailyGoal, theme |-> "light", notifications |-> TRUE]

\* loadData on an empty localStorage followed by initializeDefaultData
DefaultDoc ==
    [manga |-> <<>>, readingSessions |-> <<>>, settings |-> DefaultSettings,
     tags |-> DefaultTags, bookmarks |-> <<>>, history |-> <<>>]

\* a saveData whose failed write leaves the key without a value
SaveDataLosesBlob(doc, blob, ok) == IF ok THEN <<doc>> ELSE <<>>

\* saveData: localStorage.setItem either stores the whole document or throws
\* (quota, disabled storage); the exception is logged and swallowed.
SaveData(doc, blob, ok) == IF ok THEN <<doc>> ELSE blob

\* loadData + initializeDefaultData: the document a new MangaTracker holds
LoadData(blob) == IF blob = <<>> THEN DefaultDoc ELSE blob[1]

GenerateId(t, r) == <<t, r>>

\* getManga: this.data.manga.find(m => m.id === id), as a position (0: none)
GetManga(doc, id) == FindIndexById(doc.manga, id)

\* a getActiveSession that takes the last active session: findLast
GetActiveSessionLatest(doc) ==
    IF \E i \in 1..Len(doc.readingSessions) : doc.readingSessions[i].active
    THEN CHOOSE i \in 1..Len(doc.readingSessions) :
            /\ doc.readingSessions[i].active
            /\ \A j \in (i + 1)..Len(doc.readingSessions) :
                    ~doc.readingSessions[j].active
    ELSE 0

\* getActiveSession: this.data.readingSessions.find(s => s.active)
GetActiveSession(doc) ==
    IF \E i \in 1..Len(doc.readingSessions) : doc.readingSessions[i].active
    THEN CHOOSE i \in 1..Len(doc.readingSessions) :
            /\ doc.readingSessions[i].active
            /\ \A j \in 1..(i - 1) : ~doc.readingSessions[j].active
    ELSE 0

\* addManga: the record built from the caller's fields; a falsy field (0, "",
\* an empty text) takes the default of its `||`.
NewManga(md, id, t) ==
    [id |-> id,
     title |-> md.title,
     type |-> IF md.type = "" THEN "manga" ELSE md.type,
     status |-> IF md.status = "" THEN "reading" ELSE md.status,
     currentChapter |-> md.currentChapter,
     totalChapters |-> md.totalChapters,
     tags |-> md.tags,
     author |-> md.author,
     lastRead |-> NoTime,
     createdAt |-> t,
     updatedAt |-> t]

AddMangaDoc(doc, md, id, t) ==
    [doc EXCEPT !.manga = Append(@, NewManga(md, id, t))]

\* a merge that spreads the record over the updates: { ...updates, ...record }
MergedMangaRecordWins(rec, upd, t) == [rec EXCEPT !.updatedAt = t]

\* a merge that stamps before it spreads the updates:
\* { ...record, updatedAt: now, ...updates }
MergedMangaUpdatesLast(rec, upd, t) ==
    LET Pick(f) == IF f \in DOMAIN upd THEN upd[f] ELSE rec[f]
    IN [id |-> Pick("id"),
        title |-> Pick("title"),
        type |-> Pick("type"),
        status |-> Pick("status"),
        currentChapter |-> Pick("currentChapter"),
        totalChapters |-> Pick("totalChapters"),
        tags |-> Pick("tags"),
        author |-> Pick("author"),
        lastRead |-> Pick("lastRead"),
        createdAt |-> Pick("createdAt"),
        updatedAt |-> IF "updatedAt" \in DOMAIN upd THEN upd.updatedAt ELSE t]

\* { ...record, ...updates, updatedAt: now }
MergedManga(rec, upd, t) ==
    LET Pick(f) == IF f \in DOMAIN upd THEN upd[f] ELSE rec[f]
    IN [id |-> Pick("id"),
        title |-> Pick("title"),
        type |-> Pick("type"),
        status |-> Pick("status"),
        currentChapter |-> Pick("currentChapter"),
        totalChapters |-> Pick("totalChapters"),
        tags |-> Pick("tags"),
        author |-> Pick("author"),
        lastRead |-> Pick("lastRead"),
        createdAt |-> Pick("createdAt"),
        updatedAt |-> t]

\* an updateManga that takes the record out and pushes the merged one
UpdateMangaDocMovesLast(doc, id, upd, t) ==
    LET index == FindIndexById(doc.manga, id)
    IN IF index # 0
       THEN [doc EXCEPT !.manga = Append(RemoveAt(@, index),
                                         MergedManga(@[index], upd, t))]
       ELSE doc

\* updateManga: the document after the call (unchanged when id is unknown)
UpdateMangaDoc(doc, id, upd, t) ==
    LET index == FindIndexById(doc.manga, id)
    IN IF index # 0
       THEN [doc EXCEPT !.manga[index] = MergedManga(@, upd, t)]
       ELSE doc

\* a deleteManga that also drops the sessions bound to the title
DeleteMangaDocCascades(doc, id) ==
    LET index == FindIndexById(doc.manga, id)
        kept == {i \in 1..Len(doc.readingSessions) :
                    doc.readingSessions[i].mangaId # id}
    IN IF index # 0
       THEN [doc EXCEPT
                !.manga = RemoveAt(@, index),
                !.readingSessions =
                    IF kept = 1..Len(@) THEN @
                    ELSE IF 1 \in kept THEN <<@[1]>>
                    ELSE IF 2 \in kept THEN <<@[2]>>
                    ELSE <<>>]
       ELSE doc

\* deleteManga: the document after the call
DeleteMangaDoc(doc, id) ==
    LET index == FindIndexById(doc.manga, id)
    IN IF index # 0
       THEN [doc EXCEPT !.manga = RemoveAt(@, index)]
       ELSE doc

NewSession(id, mangaId, t) ==
    [id |-> id, mangaId |-> mangaId, startTime |-> t, endTime |-> NoTime,
     chaptersRead |-> 0, active |-> TRUE]

\* startReadingSession: the document after the call
StartSessionDoc(doc, id, mangaId, t) ==
    [doc EXCEPT !.readingSessions = Append(@, NewSession(id, mangaId, t))]

\* a close that flips the flag, so that ending a closed session reopens it
CloseSessionDocToggles(doc, sessionId, n, t) ==
    LET index == FindIndexById(doc.readingSessions, sessionId)
    IN IF index # 0
       THEN [doc EXCEPT !.readingSessions[index] =
                [@ EXCEPT !.endTime = t, !.chaptersRead = n, !.active = ~@]]
       ELSE doc

\* endReadingSession, first half: the session is closed (lines 126-128)
CloseSessionDoc(doc, sessionId, n, t) ==
    LET index == FindIndexById(doc.readingSessions, sessionId)
    IN IF index # 0
       THEN [doc EXCEPT !.readingSessions[index] =
                [@ EXCEPT !.endTime = t, !.chaptersRead = n, !.active = FALSE]]
       ELSE doc

\* endReadingSession, second half: does the progress update run (line 132-134)
AdvancesProgress(doc, sessionId, n) ==
    LET index == FindIndexById(doc.readingSessions, sessionId)
    IN /\ index # 0
       /\ doc.readingSessions[index].mangaId # NoId
       /\ n > 0
       /\ GetManga(doc, doc.readingSessions[index].mangaId) # 0

\* a progress update that stores the chapters read instead of adding them
ProgressUpdatesSetsChapters(rec, n, t) ==
    ("currentChapter" :> n) @@ ("lastRead" :> t)

\* endReadingSession, second half: the updates handed to updateManga
ProgressUpdates(rec, n, t) ==
    ("currentChapter" :> (rec.currentChapter + n)) @@ ("lastRead" :> t)

\* endReadingSession: the document after the call
EndSessionDoc(doc, sessionId, n, t) ==
    LET closed == CloseSessionDoc(doc, sessionId, n, t)
        index == FindIndexById(doc.readingSessions, sessionId)
    IN IF AdvancesProgress(doc, sessionId, n)
       THEN LET mangaId == doc.readingSessions[index].mangaId
                rec == closed.manga[GetManga(closed, mangaId)]
            IN UpdateMangaDoc(closed, rec.id, ProgressUpdates(rec, n, t), t)
       ELSE closed

\* endReadingSession: what localStorage holds after the call; the first
\* saveData (line 129) and the one inside updateManga can each fail.
EndSessionBlob(doc, blob, sessionId, n, t, ok1, ok2) ==
    LET closed == CloseSessionDoc(doc, sessionId, n, t)
        index == FindIndexById(doc.readingSessions, sessionId)
    IN IF index = 0 THEN blob
       ELSE IF AdvancesProgress(doc, sessionId, n)
            THEN SaveData(EndSessionDoc(doc, sessionId, n, t),
                          SaveData(closed, blob, ok1), ok2)
            ELSE SaveData(closed, blob, ok1)

NewHistoryEntry(id, mangaId, action, details, t) ==
    [id |-> id, mangaId |-> mangaId, action |-> action, details |-> details,
     timestamp |-> t]

\* an addToHistory that keeps the last 100 of the array: slice(-100)
AddToHistoryDocKeepsLast(doc, id, mangaId, action, details, t) ==
    LET grown == <<NewHistoryEntry(id, mangaId, action, details, t)>>
                    \o doc.history
    IN [doc EXCEPT !.history =
            IF Len(grown) > HistoryCap
            THEN SubSeq(grown, Len(grown) - HistoryCap + 1, Len(grown))
            ELSE grown]

\* addToHistory: unshift, then keep the first 100
AddToHistoryDoc(doc, id, mangaId, action, details, t) ==
    LET grown == <<NewHistoryEntry(id, mangaId, action, details, t)>>
                    \o doc.history
    IN [doc EXCEPT !.history =
            IF Len(grown) > HistoryCap THEN Take(grown, HistoryCap) ELSE grown]

\* getRecentActivity
GetRecentActivity(doc, limit) == Take(doc.history, limit)

\* a searchManga whose status filter widens instead of narrowing: a title
\* is kept when the text matches or the status does
SearchMangaStatusWidens(doc, query, filters) ==
    LET searchTerm == ToLowerCase(query)
        TextMatch(m) ==
            \/ Includes(ToLowerCase(m.title), searchTerm)
            \/ Includes(ToLowerCase(m.author), searchTerm)
            \/ \E k \in 1..Len(m.tags) :
                    Includes(ToLowerCase(m.tags[k]), searchTerm)
        Keep(m) ==
            /\ \/ (query # <<>>) => TextMatch(m)
               \/ (filters.status # "") /\ m.status = filters.status
            /\ (filters.type # "") => m.type = filters.type
            /\ (Len(filters.tags) > 0) =>
                    \E k \in 1..Len(filters.tags) :
                        \E l \in 1..Len(m.tags) : m.tags[l] = filters.tags[k]
        F[i \in 0..Len(doc.manga)] ==
            IF i = 0 THEN <<>>
            ELSE IF Keep(doc.manga[i]) THEN Append(F[i - 1], doc.manga[i])
                 ELSE F[i - 1]
    IN F[Len(doc.manga)]

\* searchManga: the matching titles, in store order
SearchManga(doc, query, filters) ==
    LET searchTerm == ToLowerCase(query)
        TextMatch(m) ==
            \/ Includes(ToLowerCase(m.title), searchTerm)
            \/ Includes(ToLowerCase(m.author), searchTerm)
            \/ \E k \in 1..Len(m.tags) :
                    Includes(ToLowerCase(m.tags[k]), searchTerm)
        Keep(m) ==
            /\ (query # <<>>) => TextMatch(m)
            /\ (filters.status # "") => m.status = filters.status
            /\ (filters.type # "") => m.type = filters.type
            /\ (Len(filters.tags) > 0) =>
                    \E k \in 1..Len(filters.tags) :
                        \E l \in 1..Len(m.tags) : m.tags[l] = filters.tags[k]
        F[i \in 0..Len(doc.manga)] ==
            IF i = 0 THEN <<>>
            ELSE IF Keep(doc.manga[i]) THEN Append(F[i - 1], doc.manga[i])
                 ELSE F[i - 1]
    IN F[Len(doc.manga)]

(***************************************************************************)
(* Bookmarks.                                                              *)
(***************************************************************************)
\* addBookmark: the document after the call
AddBookmarkDoc(doc, id, mangaId, chapterNumber, t) ==
    [doc EXCEPT !.bookmarks =
        Append(@, [id |-> id, mangaId |-> mangaId,
                   chapterNumber |-> chapterNumber, note |-> <<>>,
                   createdAt |-> t])]

\* a removeBookmark that splices whatever findIndex returned: splice(-1, 1)
\* removes the last bookmark
RemoveBookmarkDocUnchecked(doc, id) ==
    LET index == FindIndexById(doc.bookmarks, id)
    IN IF index # 0
       THEN [doc EXCEPT !.bookmarks = RemoveAt(@, index)]
       ELSE [doc EXCEPT !.bookmarks = SubSeq(@, 1, Len(@) - 1)]

\* removeBookmark: the document after the call
RemoveBookmarkDoc(doc, id) ==
    LET index == FindIndexById(doc.bookmarks, id)
    IN IF index # 0
       THEN [doc EXCEPT !.bookmarks = RemoveAt(@, index)]
       ELSE doc

(***************************************************************************)
(* Statistics. The clock counts milliseconds.                              *)
(***************************************************************************)
MsPerMinute == 60 * 1000
MsPerDay == 24 * 60 * MsPerMinute

\* NaN, what 0 / 0 yields: a value that is none of the numbers of the model
NaN == 0 - 1

\* arr.filter(s => !s.active)
ClosedSessionsOf(doc) ==
    LET ss == doc.readingSessions
        F[i \in 0..Len(ss)] ==
            IF i = 0 THEN <<>>
            ELSE IF ~ss[i].active THEN Append(F[i - 1], ss[i]) ELSE F[i - 1]
    IN F[Len(ss)]

\* manga.filter(m => m.status === status).length
CountStatus(doc, status) ==
    Cardinality({i \in 1..Len(doc.manga) : doc.manga[i].status = status})

\* manga.reduce((sum, m) => sum + m.currentChapter, 0)
TotalChaptersRead(doc) ==
    LET F[i \in 0..Len(doc.manga)] ==
            IF i = 0 THEN 0 ELSE F[i - 1] + doc.manga[i].currentChapter
    IN F[Len(doc.manga)]

\* the reduce of calculateAverageSessionTime: the summed length, in
\* milliseconds, of the sessions that carry both time stamps
TotalSessionTime(sessions) ==
    LET F[i \in 0..Len(sessions)] ==
            IF i = 0 THEN 0
            ELSE IF sessions[i].startTime # NoTime
                    /\ sessions[i].endTime # NoTime
                 THEN F[i - 1] + (sessions[i].endTime - sessions[i].startTime)
                 ELSE F[i - 1]
    IN F[Len(sessions)]

\* Math.round(total / count / 1000 / 60) for total >= 0 and count > 0
RoundedMinutes(total, count) ==
    (2 * total + count * MsPerMinute) \div (2 * count * MsPerMinute)

\* a calculateAverageSessionTime without its first line: 0 / 0 is NaN
CalculateAverageSessionTimeUnguarded(sessions) ==
    IF Len(sessions) = 0 THEN NaN
    ELSE RoundedMinutes(TotalSessionTime(sessions), Len(sessions))

\* calculateAverageSessionTime
CalculateAverageSessionTime(sessions) ==
    IF Len(sessions) = 0 THEN 0
    ELSE RoundedMinutes(TotalSessionTime(sessions), Len(sessions))

\* getDailyProgress / getWeeklyProgress / getMonthlyProgress: the chapters of
\* the closed sessions whose end is one of the instants of the period
ProgressIn(doc, period) ==
    LET ss == doc.readingSessions
        F[i \in 0..Len(ss)] ==
            IF i = 0 THEN 0
            ELSE IF ~ss[i].active /\ ss[i].endTime # NoTime
                    /\ ss[i].endTime \in period
                 THEN F[i - 1] + ss[i].chaptersRead
                 ELSE F[i - 1]
    IN F[Len(ss)]

\* the instants at which sessions of the document ended
EndTimes(doc) ==
    {doc.readingSessions[i].endTime : i \in 1..Len(doc.readingSessions)}

\* new Date(e) >= the date `days` days before t, that is
\* e >= t - days * MsPerDay, computed without leaving 32 bits
NotBefore(e, t, days) ==
    \/ (t - e) \div MsPerDay < days
    \/ (t - e) \div MsPerDay = days /\ (t - e) % MsPerDay = 0

GetDailyProgress(doc, t) ==
    ProgressIn(doc, {e \in EndTimes(doc) : e \div MsPerDay = t \div MsPerDay})

GetWeeklyProgress(doc, t) ==
    ProgressIn(doc, {e \in EndTimes(doc) : NotBefore(e, t, 7)})

\* monthDays: the length of the month setMonth(getMonth() - 1) goes back over
GetMonthlyProgress(doc, t, monthDays) ==
    ProgressIn(doc, {e \in EndTimes(doc) : NotBefore(e, t, monthDays)})

\* getStatistics
GetStatistics(doc, t, monthDays) ==
    [totalManga |-> Len(doc.manga),
     currentlyReading |-> CountStatus(doc, "reading"),
     completed |-> CountStatus(doc, "completed"),
     onHold |-> CountStatus(doc, "on-hold"),
     dropped |-> CountStatus(doc, "dropped"),
     planToRead |-> CountStatus(doc, "plan-to-read"),
     totalChaptersRead |-> TotalChaptersRead(doc),
     totalReadingSessions |-> Len(ClosedSessionsOf(doc)),
     averageSessionTime |->
        CalculateAverageSessionTime(ClosedSessionsOf(doc)),
     dailyProgress |-> GetDailyProgress(doc, t),
     weeklyProgress |-> GetWeeklyProgress(doc, t),
     monthlyProgress |-> GetMonthlyProgress(doc, t, monthDays)]

(***************************************************************************)
(* UIController: the list views. searchManga hands back the store's own    *)
(* array when no test applies, and Array.prototype.sort sorts in place.    *)
(***************************************************************************)
\* the letters of the model in the order String.prototype.localeCompare
\* gives them: by letter first, the small one before the capital
Collation == << "a", "A", "n", "N", "s", "S", "w", "W" >>

Rank(c) == CHOOSE i \in 1..Len(Collation) : Collation[i] = c

Letter(c) == (Rank(c) + 1) \div 2

\* the sign of the first difference of two sequences of numbers
CompareKeys(a, b) ==
    LET n == Min(Len(a), Len(b))
        differ == {i \in 1..n : a[i] # b[i]}
    IN IF differ # {}
       THEN LET i == CHOOSE j \in differ : \A k \in differ : j <= k
            IN IF a[i] < b[i] THEN -1 ELSE 1
       ELSE IF Len(a) < Len(b) THEN -1
            ELSE IF Len(a) > Len(b) THEN 1 ELSE 0

\* a.localeCompare(b): letters decide, case breaks a tie
LocaleCompare(a, b) ==
    LET letters(t) == [i \in 1..Len(t) |-> Letter(t[i])]
        ranks(t) == [i \in 1..Len(t) |-> Rank(t[i])]
    IN IF CompareKeys(letters(a), letters(b)) # 0
       THEN CompareKeys(letters(a), letters(b))
       ELSE CompareKeys(ranks(a), ranks(b))

Sign(x) == IF x < 0 THEN -1 ELSE IF x > 0 THEN 1 ELSE 0

\* the comparator of sortManga, as a sign. A lastRead of null counts as
\* new Date(0), before every reading of the clock; progress is the fraction
\* currentChapter / totalChapters, 0 without a total; no record of the model
\* carries a rating.
CompareManga(a, b, sortBy) ==
    CASE sortBy = "title" -> LocaleCompare(a.title, b.title)
      [] sortBy = "lastRead" -> Sign(b.lastRead - a.lastRead)
      [] sortBy = "progress" ->
            LET num(m) == IF m.totalChapters # 0 THEN m.currentChapter ELSE 0
                den(m) == IF m.totalChapters # 0 THEN m.totalChapters ELSE 1
            IN Sign(num(b) * den(a) - num(a) * den(b))
      [] sortBy = "rating" -> 0
      [] sortBy = "createdAt" -> Sign(b.createdAt - a.createdAt)
      [] OTHER -> 0

\* Array.prototype.sort with a comparator: a stable sort; compare[x, y] is
\* the comparator's sign for the elements x and y of the list
StableSort(list, compare) ==
    LET Insert(sorted, x) ==
            LET after == {k \in 1..Len(sorted) : compare[sorted[k], x] > 0}
                at == IF after = {} THEN Len(sorted) + 1
                      ELSE CHOOSE k \in after : \A l \in after : k <= l
            IN SubSeq(sorted, 1, at - 1) \o <<x>>
                    \o SubSeq(sorted, at, Len(sorted))
        F[i \in 0..Len(list)] ==
            IF i = 0 THEN <<>> ELSE Insert(F[i - 1], list[i])
    IN F[Len(list)]

Elements(list) == {list[i] : i \in 1..Len(list)}

\* sortManga
SortManga(list, sortBy) ==
    StableSort(list, [a \in Elements(list), b \in Elements(list) |->
                            CompareManga(a, b, sortBy)])

\* getTopMangaByChapters: the list as its sort leaves it
SortByChapters(list) ==
    StableSort(list, [a \in Elements(list), b \in Elements(list) |->
                            Sign(b.currentChapter - a.currentChapter)])

\* searchManga: does it return this.data.manga itself (no filter has run)
ReturnsStoreArray(query, filters) ==
    /\ query = <<>>
    /\ filters.status = ""
    /\ filters.type = ""
    /\ Len(filters.tags) = 0

\* filterManga / searchLibrary: the document after searchManga's result went
\* through sortManga
SortedInStore(doc, query, filters, sortBy) ==
    IF ReturnsStoreArray(query, filters)
    THEN [doc EXCEPT !.manga = SortManga(@, sortBy)]
    ELSE doc

\* filterManga / searchLibrary: the list that is rendered
FilteredManga(doc, query, filters, sortBy) ==
    SortManga(SearchManga(doc, ToLowerCase(query), filters), sortBy)

(***************************************************************************)
(* State.                                                                  *)
(*   data        MangaTracker.data, the in-memory document, of the         *)
(*               instance the operations go through                        *)
(*   stored      localStorage[storageKey]: <<>> when absent, <<doc>> else  *)
(*   now         the clock read by new Date() and Date.now()               *)
(*   activeTimer UIController.activeTimer                                  *)
(*   last        the operation that ran last: its name, arguments and      *)
(*               return value                                              *)
(*   other       <<>>, or <<doc>> with the in-memory document of a second  *)
(*               MangaTracker over the same storage key, the one the       *)
(*               operations do not go through at the moment                *)
(***************************************************************************)
VARIABLES data, stored, now, activeTimer, last, other

vars == <<data, stored, now, activeTimer, last, other>>

Call(op, args, ret) == [op |-> op, args |-> args, ret |-> ret]

(***************************************************************************)
(* Inputs.                                                                 *)
(***************************************************************************)
\* Math.random() draws
RandDraws == {0, 1}

\* outcomes of one localStorage.setItem
SaveOutcomes == BOOLEAN

Sw == << "S", "w" >>
Na == << "n", "a" >>

\* the fields handed to addManga
SoloLeveling ==
    [title |-> Sw, type |-> "manhwa", status |-> "", currentChapter |-> 0,
     totalChapters |-> 2, tags |-> <<>>, author |-> <<>>]

MangaInputs ==
    { SoloLeveling,
      [title |-> Na, type |-> "", status |-> "completed", currentChapter |-> 1,
       totalChapters |-> 0, tags |-> <<>>, author |-> Sw] }

\* an id no record has
UnknownId == <<-1, 0>>

MangaIds(doc) == {doc.manga[i].id : i \in 1..Len(doc.manga)}

SessionIds(doc) ==
    {doc.readingSessions[i].id : i \in 1..Len(doc.readingSessions)}

\* the partial records handed to updateManga
UpdateInputs(doc) ==
    {"status" :> "on-hold", "currentChapter" :> 2, "updatedAt" :> 0}
        \cup {"id" :> id : id \in MangaIds(doc)}

\* what the user enters in the "How many chapters" prompt, after
\* parseInt(...) || 0
ChapterInputs == {-1, 0, 1}

(***************************************************************************)
(* Construction: new MangaTracker() on an empty localStorage, then         *)
(* new UIController(tracker).                                              *)
(***************************************************************************)
Init ==
    /\ data = DefaultDoc
    /\ stored \in {SaveData(DefaultDoc, <<>>, ok) : ok \in SaveOutcomes}
    /\ now = 0
    /\ activeTimer = 0
    /\ last = Call("constructor", <<>>, Null)
    /\ other = <<>>

\* the clock advances
Tick ==
    /\ now < MaxTime
    /\ now' = now + 1
    /\ UNCHANGED <<data, stored, activeTimer, last>>
    /\ UNCHANGED other

(***************************************************************************)
(* MangaTracker operations.                                                *)
(***************************************************************************)
AddManga(md, r, ok) ==
    /\ Len(data.manga) < MaxManga
    /\ LET doc == AddMangaDoc(data, md, GenerateId(now, r), now)
       IN /\ data' = doc
          /\ stored' = SaveData(doc, stored, ok)
          /\ last' = Call("addManga", <<md>>, <<doc.manga[Len(doc.manga)]>>)
    /\ UNCHANGED <<now, activeTimer>>
    /\ UNCHANGED other

UpdateManga(id, upd, ok) ==
    /\ LET doc == UpdateMangaDoc(data, id, upd, now)
           index == FindIndexById(data.manga, id)
       IN /\ data' = doc
          /\ stored' = IF index # 0 THEN SaveData(doc, stored, ok) ELSE stored
          /\ last' = Call("updateManga", <<id, upd>>,
                          IF index # 0 THEN <<doc.manga[index]>> ELSE Null)
    /\ UNCHANGED <<now, activeTimer>>
    /\ UNCHANGED other

\* Deleting a title shifts no session, so activeTimer keeps its referent.
DeleteManga(id, ok) ==
    /\ LET doc == DeleteMangaDoc(data, id)
           index == FindIndexById(data.manga, id)
       IN /\ data' = doc
          /\ stored' = IF index # 0 THEN SaveData(doc, stored, ok) ELSE stored
          /\ last' = Call("deleteManga", <<id>>,
                          IF index # 0 THEN <<data.manga[index]>> ELSE Null)
    /\ UNCHANGED <<now, activeTimer>>
    /\ UNCHANGED other

StartReadingSession(mangaId, r, ok) ==
    /\ Len(data.readingSessions) < MaxSessions
    /\ LET doc == StartSessionDoc(data, GenerateId(now, r), mangaId, now)
       IN /\ data' = doc
          /\ stored' = SaveData(doc, stored, ok)
          /\ last' = Call("startReadingSession", <<mangaId>>,
                          <<doc.readingSessions[Len(doc.readingSessions)]>>)
    /\ UNCHANGED <<now, activeTimer>>
    /\ UNCHANGED other

\* the chapter a title would reach stays within the model's bound
WithinChapters(doc, sessionId, n) ==
    AdvancesProgress(doc, sessionId, n) =>
        LET s == doc.readingSessions[FindIndexById(doc.readingSessions,
                                                   sessionId)]
        IN doc.manga[GetManga(doc, s.mangaId)].currentChapter + n
                <= MaxChapter

EndReadingSession(sessionId, n, ok1, ok2) ==
    /\ WithinChapters(data, sessionId, n)
    /\ LET doc == EndSessionDoc(data, sessionId, n, now)
           index == FindIndexById(data.readingSessions, sessionId)
       IN /\ data' = doc
          /\ stored' = EndSessionBlob(data, stored, sessionId, n, now, ok1, ok2)
          /\ last' = Call("endReadingSession", <<sessionId, n>>,
                          IF index # 0 THEN <<doc.readingSessions[index]>>
                          ELSE Null)
    /\ UNCHANGED <<now, activeTimer>>
    /\ UNCHANGED other

(***************************************************************************)
(* UIController: the session timer.                                        *)
(***************************************************************************)
\* getSessionDuration for the session the timer refers to
GetSessionDuration(s, t) == (t - s.startTime) \div 1000

\* startTimer: sel is what showMangaSelectionModal returns, a position in
\* getAllManga() or 0 for null (cancelled, out of range, or no title to offer)
SelectedMangaId(doc, sel) ==
    IF Len(doc.manga) > 0 /\ sel \in 1..Len(doc.manga)
    THEN doc.manga[sel].id
    ELSE NoId

StartTimerBody(sel, r, ok) ==
    /\ Len(data.readingSessions) < MaxSessions
    /\ LET doc == StartSessionDoc(data, GenerateId(now, r),
                                  SelectedMangaId(data, sel), now)
       IN /\ data' = doc
          /\ stored' = SaveData(doc, stored, ok)
          /\ activeTimer' = Len(doc.readingSessions)

\* a guard that looks for the title at the head of the list only
WritesReadEntryForFirstTitle(doc, s) ==
    /\ s.mangaId # NoId
    /\ Len(doc.manga) > 0
    /\ doc.manga[1].id = s.mangaId

\* stopTimer, lines 1471-1473: is the 'read' entry written
WritesReadEntry(doc, s) ==
    /\ s.mangaId # NoId
    /\ GetManga(doc, s.mangaId) # 0

\* stopTimer with an active timer: the document after the call
StopTimerDoc(doc, timer, n, r, t) ==
    LET s == doc.readingSessions[timer]
        ended == EndSessionDoc(doc, s.id, n, t)
    IN IF WritesReadEntry(ended, s)
       THEN AddToHistoryDoc(ended, GenerateId(t, r), s.mangaId, "read",
                [title |-> ended.manga[GetManga(ended, s.mangaId)].title,
                 chaptersRead |-> n,
                 sessionDuration |-> GetSessionDuration(s, t)], t)
       ELSE ended

StopTimerBlob(doc, blob, timer, n, r, t, ok1, ok2, ok3) ==
    LET s == doc.readingSessions[timer]
        ended == EndSessionDoc(doc, s.id, n, t)
        endedBlob == EndSessionBlob(doc, blob, s.id, n, t, ok1, ok2)
    IN IF WritesReadEntry(ended, s)
       THEN SaveData(StopTimerDoc(doc, timer, n, r, t), endedBlob, ok3)
       ELSE endedBlob

StopTimerBody(n, r, ok1, ok2, ok3) ==
    IF activeTimer # 0
    THEN /\ WithinChapters(data, data.readingSessions[activeTimer].id, n)
         /\ data' = StopTimerDoc(data, activeTimer, n, r, now)
         /\ stored' = StopTimerBlob(data, stored, activeTimer, n, r, now,
                                    ok1, ok2, ok3)
         /\ activeTimer' = 0
    ELSE UNCHANGED <<data, stored, activeTimer>>

StartTimer(sel, r, ok) ==
    /\ StartTimerBody(sel, r, ok)
    /\ last' = Call("startTimer", <<sel>>, Null)
    /\ UNCHANGED now
    /\ UNCHANGED other

StopTimer(n, r, ok1, ok2, ok3) ==
    /\ StopTimerBody(n, r, ok1, ok2, ok3)
    /\ last' = Call("stopTimer", <<n>>, Null)
    /\ UNCHANGED now
    /\ UNCHANGED other

\* toggleTimer: sel and n are the answers to the prompt the branch shows
ToggleTimer(sel, n, r, ok1, ok2, ok3) ==
    /\ IF activeTimer # 0
       THEN StopTimerBody(n, r, ok1, ok2, ok3)
       ELSE StartTimerBody(sel, r, ok1)
    /\ last' = Call("toggleTimer", <<sel, n>>, Null)
    /\ UNCHANGED now
    /\ UNCHANGED other

\* The page is loaded again: new MangaTracker() reads the blob, fills in the
\* defaults and saves; new UIController() starts with no timer and
\* setupTimerButton re-attaches it to the store's active session.
Reload(ok) ==
    /\ data' = LoadData(stored)
    /\ stored' = SaveData(LoadData(stored), stored, ok)
    /\ activeTimer' = GetActiveSession(LoadData(stored))
    /\ last' = Call("reload", <<>>, Null)
    /\ UNCHANGED now
    /\ other' = IF other = <<>> THEN <<>> ELSE <<LoadData(stored)>>

(***************************************************************************)
(* UIController.updateProgress (the later definition, which is the one a   *)
(* class keeps): the record is changed in place, handed whole to           *)
(* updateManga, and a 'progress_update' entry is written.                  *)
(***************************************************************************)
\* the earlier definition of updateProgress (lines 1749-1769), which hands
\* updateManga the chapter and the time only
ProgressedMangaKeepsStatus(rec, newChapter, t) ==
    [rec EXCEPT !.currentChapter = newChapter, !.lastRead = t]

ProgressedManga(rec, newChapter, t) ==
    [rec EXCEPT !.currentChapter = newChapter,
                !.lastRead = t,
                !.status = IF rec.totalChapters # 0
                              /\ newChapter >= rec.totalChapters
                           THEN "completed" ELSE @]

UpdateProgressDoc(doc, mangaId, newChapter, r, t) ==
    LET index == GetManga(doc, mangaId)
        rec == ProgressedManga(doc.manga[index], newChapter, t)
        inPlace == [doc EXCEPT !.manga[index] = rec]
        updated == UpdateMangaDoc(inPlace, mangaId, rec, t)
    IN AddToHistoryDoc(updated, GenerateId(t, r), mangaId, "progress_update",
            [title |-> rec.title,
             oldChapter |-> doc.manga[index].currentChapter,
             newChapter |-> newChapter,
             chaptersRead |-> newChapter - doc.manga[index].currentChapter], t)

UpdateProgressBlob(doc, blob, mangaId, newChapter, r, t, ok1, ok2) ==
    LET index == GetManga(doc, mangaId)
        rec == ProgressedManga(doc.manga[index], newChapter, t)
        inPlace == [doc EXCEPT !.manga[index] = rec]
        updated == UpdateMangaDoc(inPlace, mangaId, rec, t)
    IN SaveData(UpdateProgressDoc(doc, mangaId, newChapter, r, t),
                SaveData(updated, blob, ok1), ok2)

UpdateProgress(mangaId, newChapter, r, ok1, ok2) ==
    /\ IF GetManga(data, mangaId) # 0
       THEN /\ data' = UpdateProgressDoc(data, mangaId, newChapter, r, now)
            /\ stored' = UpdateProgressBlob(data, stored, mangaId, newChapter,
                                            r, now, ok1, ok2)
       ELSE UNCHANGED <<data, stored>>
    /\ last' = Call("updateProgress", <<mangaId, newChapter>>, Null)
    /\ UNCHANGED <<now, activeTimer>>
    /\ UNCHANGED other

(***************************************************************************)
(* UIController.handleAddManga: the submitted form is added as a title and *)
(* an 'added' entry is written.                                            *)
(***************************************************************************)
HandleAddMangaDoc(doc, md, r1, r2, t) ==
    LET added == AddMangaDoc(doc, md, GenerateId(t, r1), t)
        manga == added.manga[Len(added.manga)]
    IN AddToHistoryDoc(added, GenerateId(t, r2), manga.id, "added",
                       [title |-> manga.title], t)

HandleAddManga(md, r1, r2, ok1, ok2) ==
    /\ Len(data.manga) < MaxManga
    /\ data' = HandleAddMangaDoc(data, md, r1, r2, now)
    /\ stored' = SaveData(HandleAddMangaDoc(data, md, r1, r2, now),
                    SaveData(AddMangaDoc(data, md, GenerateId(now, r1), now),
                             stored, ok1), ok2)
    /\ last' = Call("handleAddManga", <<md>>, Null)
    /\ UNCHANGED <<now, activeTimer>>
    /\ UNCHANGED other

(***************************************************************************)
(* A search: searchManga reads the store and returns the matches.          *)
(***************************************************************************)
Search(query, filters) ==
    /\ last' = Call("searchManga", <<query, filters>>,
                    SearchManga(data, query, filters))
    /\ UNCHANGED <<data, stored, now, activeTimer>>
    /\ UNCHANGED other

(***************************************************************************)
(* Statistics: getStatistics reads the store and the clock.                *)
(***************************************************************************)
\* the days of the month before the current one
MonthDays == {28, 31}

Statistics(monthDays) ==
    /\ last' = Call("getStatistics", <<>>, GetStatistics(data, now, monthDays))
    /\ UNCHANGED <<data, stored, now, activeTimer>>
    /\ UNCHANGED other

\* a minute passes
TickMinute ==
    /\ now + MsPerMinute <= MaxMinutes * MsPerMinute
    /\ now' = now + MsPerMinute
    /\ UNCHANGED <<data, stored, activeTimer, last>>
    /\ UNCHANGED other

(***************************************************************************)
(* UIController: list views and the analytics view.                        *)
(***************************************************************************)
\* filterManga: the search box, the selects and the tag buttons of "My Manga"
FilterManga(query, filters, sortBy) ==
    /\ data' = SortedInStore(data, ToLowerCase(query), filters, sortBy)
    /\ last' = Call("filterManga", <<query, filters, sortBy>>,
                    FilteredManga(data, query, filters, sortBy))
    /\ UNCHANGED <<stored, now, activeTimer>>
    /\ UNCHANGED other

\* searchLibrary: the same over the library's controls, which have no tags
SearchLibrary(query, filters, sortBy) ==
    /\ filters.tags = <<>>
    /\ data' = SortedInStore(data, ToLowerCase(query), filters, sortBy)
    /\ last' = Call("searchLibrary", <<query, filters, sortBy>>,
                    FilteredManga(data, query, filters, sortBy))
    /\ UNCHANGED <<stored, now, activeTimer>>
    /\ UNCHANGED other

\* loadAnalytics: getTopMangaByChapters sorts the array getAllManga returned
LoadAnalytics ==
    /\ data' = [data EXCEPT !.manga = SortByChapters(@)]
    /\ last' = Call("loadAnalytics", <<>>, Take(SortByChapters(data.manga), 5))
    /\ UNCHANGED <<stored, now, activeTimer>>
    /\ UNCHANGED other

\* quickUpdateProgress: the prompt's answer, parsed, goes to updateProgress
\* and the list is filtered again
QuickUpdateProgress(mangaId, chapterNum, r, ok1, ok2, query, filters, sortBy) ==
    /\ IF GetManga(data, mangaId) # 0 /\ chapterNum >= 0
       THEN /\ data' = SortedInStore(
                    UpdateProgressDoc(data, mangaId, chapterNum, r, now),
                    ToLowerCase(query), filters, sortBy)
            /\ stored' = UpdateProgressBlob(data, stored, mangaId, chapterNum,
                                            r, now, ok1, ok2)
       ELSE UNCHANGED <<data, stored>>
    /\ last' = Call("quickUpdateProgress", <<mangaId, chapterNum>>, Null)
    /\ UNCHANGED <<now, activeTimer>>
    /\ UNCHANGED other

(***************************************************************************)
(* MangaTracker: bookmark operations.                                      *)
(***************************************************************************)
AddBookmark(mangaId, chapterNumber, r, ok) ==
    /\ Len(data.bookmarks) < MaxBookmarks
    /\ LET doc == AddBookmarkDoc(data, GenerateId(now, r), mangaId,
                                 chapterNumber, now)
       IN /\ data' = doc
          /\ stored' = SaveData(doc, stored, ok)
          /\ last' = Call("addBookmark", <<mangaId, chapterNumber>>,
                          <<doc.bookmarks[Len(doc.bookmarks)]>>)
    /\ UNCHANGED <<now, activeTimer>>
    /\ UNCHANGED other

RemoveBookmark(id, ok) ==
    /\ LET doc == RemoveBookmarkDoc(data, id)
           index == FindIndexById(data.bookmarks, id)
       IN /\ data' = doc
          /\ stored' = IF index # 0 THEN SaveData(doc, stored, ok) ELSE stored
          /\ last' = Call("removeBookmark", <<id>>,
                          IF index # 0 THEN <<data.bookmarks[index]>>
                          ELSE Null)
    /\ UNCHANGED <<now, activeTimer>>
    /\ UNCHANGED other

(***************************************************************************)
(* Two instances. The script builds a MangaTracker at module level         *)
(* (line 304) and another one on DOMContentLoaded (line 1943), each with   *)
(* a UIController of its own listening to the same page.                   *)
(***************************************************************************)
\* new MangaTracker() while another instance is alive: it reads the blob,
\* fills in the defaults and saves
NewTracker(ok) ==
    /\ other = <<>>
    /\ other' = <<LoadData(stored)>>
    /\ stored' = SaveData(LoadData(stored), stored, ok)
    /\ last' = Call("newTracker", <<>>, Null)
    /\ UNCHANGED <<data, now, activeTimer>>

\* the handlers of the other controller run next
SwitchInstance ==
    /\ other # <<>>
    /\ data' = other[1]
    /\ other' = <<data>>
    /\ last' = Call("switchInstance", <<>>, Null)
    /\ UNCHANGED <<stored, now, activeTimer>>

(***************************************************************************)
(* The operations with their inputs drawn from sets: Rs are the            *)
(* Math.random() draws and Oks the outcomes of localStorage.setItem that a *)
(* specification lets happen.                                              *)
(***************************************************************************)
HistoryRoom == Len(data.history) < MaxHistory

DoAddManga(Mds, Rs, Oks) ==
    \E md \in Mds, r \in Rs, ok \in Oks : AddManga(md, r, ok)

DoUpdateManga(Oks) ==
    \E id \in MangaIds(data) \cup {UnknownId}, upd \in UpdateInputs(data),
       ok \in Oks :
        UpdateManga(id, upd, ok)

DoDeleteManga(Oks) ==
    \E id \in MangaIds(data) \cup {UnknownId}, ok \in Oks : DeleteManga(id, ok)

DoStartReadingSession(Rs, Oks) ==
    \E mangaId \in MangaIds(data) \cup {NoId}, r \in Rs, ok \in Oks :
        StartReadingSession(mangaId, r, ok)

DoEndReadingSession(Ns, Oks) ==
    \E sessionId \in SessionIds(data) \cup {UnknownId}, n \in Ns,
       ok1 \in Oks, ok2 \in Oks :
        EndReadingSession(sessionId, n, ok1, ok2)

DoStartTimer(Rs, Oks) ==
    \E sel \in 0..Len(data.manga), r \in Rs, ok \in Oks : StartTimer(sel, r, ok)

DoStopTimer(Ns, Rs, Oks) ==
    /\ HistoryRoom
    /\ \E n \in Ns, r \in Rs, ok1 \in Oks, ok2 \in Oks, ok3 \in Oks :
        StopTimer(n, r, ok1, ok2, ok3)

DoToggleTimer(Ns, Rs, Oks) ==
    /\ HistoryRoom
    /\ \E sel \in 0..Len(data.manga), n \in Ns, r \in Rs,
          ok1 \in Oks, ok2 \in Oks, ok3 \in Oks :
        ToggleTimer(sel, n, r, ok1, ok2, ok3)

DoReload(Oks) == \E ok \in Oks : Reload(ok)

(***************************************************************************)
(* TitleSpec: the titles of the record store, driven through addManga,     *)
(* updateManga and deleteManga.                                            *)
(***************************************************************************)
TitleNext ==
    \/ Tick
    \/ DoAddManga(MangaInputs, RandDraws, {TRUE})
    \/ DoUpdateManga({TRUE})
    \/ DoDeleteManga({TRUE})

TitleSpec == Init /\ [][TitleNext]_vars

(***************************************************************************)
(* SessionSpec: reading sessions driven through the record store itself.   *)
(***************************************************************************)
SessionNext ==
    \/ Tick
    \/ DoAddManga({SoloLeveling}, RandDraws, {TRUE})
    \/ DoStartReadingSession(RandDraws, {TRUE})
    \/ DoEndReadingSession(ChapterInputs, {TRUE})

SessionSpec == Init /\ [][SessionNext]_vars

(***************************************************************************)
(* TimerSpec: the session timer over a store of titles; sessions are       *)
(* started and stopped through the timer only.                             *)
(***************************************************************************)
TimerNext ==
    \/ Tick
    \/ DoAddManga({SoloLeveling}, RandDraws, {TRUE})
    \/ DoDeleteManga({TRUE})
    \/ DoStartTimer(RandDraws, {TRUE})
    \/ DoStopTimer(ChapterInputs \ {-1}, RandDraws, {TRUE})
    \/ DoToggleTimer(ChapterInputs \ {-1}, RandDraws, {TRUE})
    \/ DoReload({TRUE})

TimerSpec == Init /\ [][TimerNext]_vars

(***************************************************************************)
(* HistorySpec: the first title is submitted through the form and its      *)
(* progress is then raised one chapter at a time (the default the          *)
(* "Update progress" prompt offers), each step writing a history entry.    *)
(***************************************************************************)
DoFirstTitle ==
    /\ Len(data.manga) = 0
    /\ HandleAddManga(SoloLeveling, 0, 1, TRUE, TRUE)

DoNextChapter ==
    \E i \in 1..Len(data.manga) :
        /\ data.manga[i].currentChapter < HistRuns
        /\ UpdateProgress(data.manga[i].id, data.manga[i].currentChapter + 1,
                          0, TRUE, TRUE)

HistoryNext ==
    \/ DoFirstTitle
    \/ DoNextChapter

HistorySpec == Init /\ [][HistoryNext]_vars

(***************************************************************************)
(* SearchSpec: searches over stores of up to MaxManga titles.              *)
(***************************************************************************)
SwordArt(status) ==
    [title |-> << "S", "w", "A" >>, type |-> "", status |-> status,
     currentChapter |-> 0, totalChapters |-> 0, tags |-> <<>>,
     author |-> <<>>]

SearchTitles ==
    { SwordArt("reading"),
      SwordArt("completed"),
      [title |-> Na, type |-> "manhwa", status |-> "", currentChapter |-> 0,
       totalChapters |-> 0, tags |-> <<>>, author |-> << "a", "S", "W" >>],
      [title |-> Na, type |-> "", status |-> "completed", currentChapter |-> 0,
       totalChapters |-> 0, tags |-> << Na, << "s", "w" >> >>,
       author |-> <<>>],
      [title |-> Na, type |-> "", status |-> "", currentChapter |-> 0,
       totalChapters |-> 0, tags |-> << Na >>, author |-> Na] }

Queries == { <<>>, << "s", "w" >>, << "S", "W" >>, << "w", "a" >> }

\* the status select of the list views: "" is its "All Status" entry
StatusFilters == {"", "reading", "completed"}

SearchFilters ==
    { [status |-> st, type |-> ty, tags |-> tg] :
        st \in StatusFilters, ty \in {"", "manhwa"},
        tg \in { <<>>, << Na >> } }

DoSearch == \E query \in Queries, filters \in SearchFilters :
                Search(query, filters)

SearchNext ==
    \/ DoAddManga(SearchTitles, {0}, {TRUE})
    \/ DoSearch

SearchSpec == Init /\ [][SearchNext]_vars

(***************************************************************************)
(* StatsSpec: statistics over stores of titles and of sessions that last   *)
(* whole minutes.                                                          *)
(***************************************************************************)
DoStatistics == \E monthDays \in MonthDays : Statistics(monthDays)

StatsNext ==
    \/ TickMinute
    \/ DoAddManga(MangaInputs, {0}, {TRUE})
    \/ DoStartReadingSession({0}, {TRUE})
    \/ DoEndReadingSession({0, 1}, {TRUE})
    \/ DoStatistics

StatsSpec == Init /\ [][StatsNext]_vars

(***************************************************************************)
(* ViewSpec: titles are added, their progress is updated from the cards,   *)
(* and the list views and the analytics view are shown.                    *)
(***************************************************************************)
\* the entries of the sort selects ("title-desc" is the library's alone)
SortKeys == {"title", "lastRead", "progress", "rating", "createdAt"}
LibrarySortKeys == SortKeys \cup {"title-desc"}

ViewQueries == { <<>>, << "S", "W" >> }

ViewFilters ==
    { [status |-> st, type |-> "", tags |-> <<>>] : st \in {"", "reading"} }

\* a title of known length that is being read, and one of unknown length
\* that is on hold
ViewTitles ==
    { SoloLeveling,
      [title |-> Na, type |-> "", status |-> "on-hold", currentChapter |-> 1,
       totalChapters |-> 0, tags |-> <<>>, author |-> Sw] }

\* the controls of "My Manga" as the user left them
ViewControls ==
    { <<q, f, k>> : q \in ViewQueries, f \in ViewFilters, k \in {"title"} }

DoFilterManga ==
    \E query \in ViewQueries, filters \in ViewFilters, sortBy \in SortKeys :
        FilterManga(query, filters, sortBy)

DoSearchLibrary ==
    \E query \in ViewQueries, filters \in ViewFilters,
       sortBy \in LibrarySortKeys :
        SearchLibrary(query, filters, sortBy)

DoQuickUpdateProgress ==
    /\ HistoryRoom
    /\ \E mangaId \in MangaIds(data), chapterNum \in 0..MaxChapter,
          c \in ViewControls :
        QuickUpdateProgress(mangaId, chapterNum, 0, TRUE, TRUE,
                            c[1], c[2], c[3])

ViewNext ==
    \/ Tick
    \/ DoAddManga(ViewTitles, {0}, {TRUE})
    \/ DoFilterManga
    \/ DoSearchLibrary
    \/ LoadAnalytics
    \/ DoQuickUpdateProgress

ViewSpec == Init /\ [][ViewNext]_vars

(***************************************************************************)
(* StoreSpec: the operations of the record store over a blob store whose   *)
(* writes can fail, with ids that may match no record, and reloads. The    *)
(* writes of the bookmark operations succeed.                              *)
(***************************************************************************)
BookmarkIds(doc) == {doc.bookmarks[i].id : i \in 1..Len(doc.bookmarks)}

\* the partial records StoreSpec hands to updateManga
StoreUpdates == {"status" :> "on-hold"}

DoAddBookmark(Rs, Oks) ==
    \E mangaId \in MangaIds(data), r \in Rs, ok \in Oks :
        AddBookmark(mangaId, 1, r, ok)

DoRemoveBookmark(Oks) ==
    \E id \in BookmarkIds(data) \cup {UnknownId}, ok \in Oks :
        RemoveBookmark(id, ok)

DoStoreUpdate(Oks) ==
    \E id \in MangaIds(data) \cup {UnknownId}, upd \in StoreUpdates,
       ok \in Oks :
        UpdateManga(id, upd, ok)

\* StoreSpec keeps one title at a time
DoAddOnlyTitle(Oks) ==
    /\ Len(data.manga) = 0
    /\ DoAddManga({SoloLeveling}, {0}, Oks)

StoreNext ==
    \/ DoAddOnlyTitle(SaveOutcomes)
    \/ DoStoreUpdate(SaveOutcomes)
    \/ DoDeleteManga(SaveOutcomes)
    \/ DoStartReadingSession(RandDraws, SaveOutcomes)
    \/ DoEndReadingSession({1}, SaveOutcomes)
    \/ DoAddBookmark({0}, {TRUE})
    \/ DoRemoveBookmark({TRUE})
    \/ DoReload(SaveOutcomes)

StoreSpec == Init /\ [][StoreNext]_vars

(***************************************************************************)
(* ToggleSpec: the timer button over a store whose sessions are also       *)
(* started directly, through startReadingSession.                          *)
(***************************************************************************)
ToggleNext ==
    \/ Tick
    \/ DoAddManga({SoloLeveling}, {0}, {TRUE})
    \/ DoStartReadingSession(RandDraws, {TRUE})
    \/ DoToggleTimer(ChapterInputs \ {-1}, RandDraws, {TRUE})
    \/ DoReload({TRUE})

ToggleSpec == Init /\ [][ToggleNext]_vars

(***************************************************************************)
(* ReloadSpec: titles are added, the "My Manga" list is shown, the timer   *)
(* button is pressed and the page is loaded again; every write succeeds.   *)
(***************************************************************************)
ReloadNext ==
    \/ Tick
    \/ DoAddManga(ViewTitles, {0}, {TRUE})
    \/ DoFilterManga
    \/ DoToggleTimer({0, 1}, {0}, {TRUE})
    \/ DoReload({TRUE})

ReloadSpec == Init /\ [][ReloadNext]_vars

(***************************************************************************)
(* UISpec: the store driven through the page alone: the add-title form,    *)
(* the "Update progress" prompt of a card, the timer button and a reload;  *)
(* every write succeeds.                                                   *)
(***************************************************************************)
\* the submitted form, its chapter fields after parseInt(...) || 0 and
\* parseInt(...) || null: "-1" parses to -1, which is truthy
FormInputs ==
    { SoloLeveling,
      [title |-> Na, type |-> "", status |-> "", currentChapter |-> -1,
       totalChapters |-> 0, tags |-> <<>>, author |-> <<>>] }

\* the answers to the "New chapter" prompt, parsed
PromptInputs == {-1, 1}

UIHistoryRoom == Len(data.history) < MaxUIHistory

DoHandleAddManga ==
    \E md \in FormInputs : HandleAddManga(md, 0, 1, TRUE, TRUE)

DoPromptProgress ==
    /\ UIHistoryRoom
    /\ \E mangaId \in MangaIds(data), chapterNum \in PromptInputs :
        QuickUpdateProgress(mangaId, chapterNum, 0, TRUE, TRUE,
                            <<>>, [status |-> "", type |-> "", tags |-> <<>>],
                            "title")

DoPressTimer ==
    /\ UIHistoryRoom
    /\ \E sel \in 0..Len(data.manga), n \in ChapterInputs, r \in RandDraws :
        ToggleTimer(sel, n, r, TRUE, TRUE, TRUE)

UINext ==
    \/ Tick
    \/ DoHandleAddManga
    \/ DoPromptProgress
    \/ DoPressTimer
    \/ DoReload({TRUE})

UISpec == Init /\ [][UINext]_vars

(***************************************************************************)
(* DeleteSpec: a title is submitted through the form, bookmarked, read in  *)
(* sessions and deleted; every write succeeds.                             *)
(***************************************************************************)
DeleteNext ==
    \/ Tick
    \/ (HistoryRoom /\ DoFirstTitle)
    \/ DoAddBookmark({0}, {TRUE})
    \/ DoDeleteManga({TRUE})
    \/ DoStartReadingSession({0}, {TRUE})
    \/ DoEndReadingSession({0, 1}, {TRUE})

DeleteSpec == Init /\ [][DeleteNext]_vars

(***************************************************************************)
(* TwoSpec: the two MangaTracker instances of the page over the one        *)
(* storage key; a title is submitted through the form and deleted,         *)
(* sessions are started and ended, through either instance; every write    *)
(* succeeds.                                                               *)
(***************************************************************************)
TwoNext ==
    \/ Tick
    \/ NewTracker(TRUE)
    \/ SwitchInstance
    \/ (HistoryRoom /\ DoFirstTitle)
    \/ DoDeleteManga({TRUE})
    \/ DoStartReadingSession({0}, {TRUE})
    \/ DoEndReadingSession({1}, {TRUE})

TwoSpec == Init /\ [][TwoNext]_vars

(***************************************************************************)
(* Every operation of the store and of the timer.                          *)
(***************************************************************************)
Next ==
    \/ TitleNext
    \/ SessionNext
    \/ TimerNext
    \/ HistoryNext
    \/ SearchNext
    \/ StatsNext
    \/ ViewNext
    \/ StoreNext
    \/ ToggleNext
    \/ TwoNext
    \/ DeleteNext
    \/ UINext
    \/ ReloadNext

Spec == Init /\ [][Next]_vars

(***************************************************************************)
(* Properties.                                                             *)
(***************************************************************************)
\* the step just taken ran operation op (Tick is the one action that leaves
\* `last` alone, and it moves the clock)
Ran(op) == last'.op = op /\ now' = now

ActiveSessions(doc) ==
    {i \in 1..Len(doc.readingSessions) : doc.readingSessions[i].active}

ClosedSessions(doc) ==
    {i \in 1..Len(doc.readingSessions) : ~doc.readingSessions[i].active}

\* C1: after any sequence of Session Timer operations (toggleTimer,
\* startTimer, stopTimer, the timer re-attached after a reload) at most one
\* session of readingSessions has active = true.
C1_AtMostOneActive == Cardinality(ActiveSessions(data)) <= 1

\* C2: startTimer called while a session is already active is a no-op: no
\* new session is created (startReadingSession is not called), and
\* readingSessions and the active timer stay as they are.
C2_StartWhileActiveIsNoOp ==
    [][(Ran("startTimer") /\ GetActiveSession(data) # 0) =>
            /\ data'.readingSessions = data.readingSessions
            /\ activeTimer' = activeTimer]_vars

\* C3: for every existing session bound to an existing title and every
\* n > 0, endReadingSession(sessionId, n) raises that title's currentChapter
\* by exactly n and changes the currentChapter of no other title.
C3_EndSessionAdvancesByN ==
    [][Ran("endReadingSession") =>
        LET sessionId == last'.args[1]
            n == last'.args[2]
            index == FindIndexById(data.readingSessions, sessionId)
        IN (/\ index # 0
            /\ n > 0
            /\ data.readingSessions[index].mangaId # NoId
            /\ GetManga(data, data.readingSessions[index].mangaId) # 0) =>
            LET i == GetManga(data, data.readingSessions[index].mangaId)
            IN /\ Len(data'.manga) = Len(data.manga)
               /\ data'.manga[i].currentChapter
                    = data.manga[i].currentChapter + n
               /\ \A j \in 1..Len(data.manga) :
                    j # i => data'.manga[j].currentChapter
                                = data.manga[j].currentChapter]_vars

\* C3's case: a session bound to a title that had already progressed has
\* been ended with n > 0, beside a second title.
C3_Witness ==
    /\ last.op = "endReadingSession"
    /\ last.ret # Null
    /\ last.args[2] > 0
    /\ last.ret[1].mangaId # NoId
    /\ GetManga(data, last.ret[1].mangaId) # 0
    /\ data.manga[GetManga(data, last.ret[1].mangaId)].currentChapter = 2
    /\ Len(data.manga) = 2

\* the number of addToHistory calls HistorySpec has made: one for the form,
\* one for each chapter
HistoryCalls(doc) ==
    IF Len(doc.manga) = 0 THEN 0 ELSE 1 + doc.manga[1].currentChapter

\* the entries of HistorySpec, newest first: chapter k + 1 sits right before
\* chapter k, and chapter 1 before the form's 'added' entry
NewestFirst(h) ==
    \A i \in 1..(Len(h) - 1) :
        /\ h[i].action = "progress_update"
        /\ h[i + 1].action = "progress_update" =>
                h[i].details.newChapter = h[i + 1].details.newChapter + 1
        /\ h[i + 1].action = "added" => h[i].details.newChapter = 1

\* C4: after any sequence of addToHistory calls the history holds at most 100
\* entries, newest first: each call puts the new entry at index 0 and, when
\* the length would exceed 100, drops only the oldest entries at the tail (so
\* 101 calls leave exactly 100 entries).
C4_HistoryCapped ==
    /\ [](/\ Len(data.history) <= HistoryCap
          /\ Len(data.history) = Min(HistoryCalls(data), HistoryCap)
          /\ NewestFirst(data.history)
          /\ (Len(data.manga) > 0 /\ data.manga[1].currentChapter > 0) =>
                data.history[1].details.newChapter
                    = data.manga[1].currentChapter)
    /\ [][data'.history # data.history =>
            data'.history = Take(<<data'.history[1]>> \o data.history,
                                 HistoryCap)]_vars

\* C4's case: the 101st call has been made and 100 entries are left, the
\* newest at the head and the form's entry gone from the tail.
C4_Witness ==
    /\ HistoryCalls(data) = HistoryCap + 1
    /\ Len(data.history) = HistoryCap
    /\ data.history[1].details.newChapter = HistoryCap
    /\ data.history[HistoryCap].action = "progress_update"
    /\ data.history[HistoryCap].details.newChapter = 1

\* C5 as claimed: for every existing title id, every field name and every
\* value v, updateManga(id, {field: v}) followed by getManga(id) returns a
\* record whose field equals v.
C5_AnyFieldReadsBack ==
    (last.op = "updateManga" /\ last.ret # Null) =>
        LET i == GetManga(data, last.args[1])
        IN /\ i # 0
           /\ \A f \in DOMAIN last.args[2] :
                data.manga[i][f] = last.args[2][f]

\* C5 as amended: the same for every field name other than id and updatedAt.
C5_PlainFieldReadsBack ==
    (/\ last.op = "updateManga"
     /\ last.ret # Null
     /\ DOMAIN last.args[2] \cap {"id", "updatedAt"} = {}) =>
        LET i == GetManga(data, last.args[1])
        IN /\ i # 0
           /\ \A f \in DOMAIN last.args[2] :
                data.manga[i][f] = last.args[2][f]

\* C5's case: a field of one of two titles has been updated.
C5_Witness ==
    /\ last.op = "updateManga"
    /\ last.ret # Null
    /\ DOMAIN last.args[2] = {"status"}
    /\ Len(data.manga) = 2
    /\ data.manga[GetManga(data, last.args[1])].status = "on-hold"

\* C6 as claimed: every successful updateManga(id, updates) leaves the
\* record's updatedAt strictly greater than before the call, whatever the
\* updates contain.
C6_UpdatedAtStrictlyGreater ==
    [][(Ran("updateManga") /\ last'.ret # Null) =>
            LET i == GetManga(data, last'.args[1])
            IN data'.manga[i].updatedAt > data.manga[i].updatedAt]_vars

\* C6 as amended: every successful updateManga sets the record's updatedAt
\* to the time of the call, whatever the updates contain; that is never
\* less than the updatedAt before, and strictly greater when the clock has
\* advanced since the record was stamped.
C6_UpdatedAtRefreshed ==
    [][(Ran("updateManga") /\ last'.ret # Null) =>
            LET i == GetManga(data, last'.args[1])
            IN /\ data'.manga[i].updatedAt = now
               /\ data'.manga[i].updatedAt >= data.manga[i].updatedAt
               /\ now > data.manga[i].updatedAt =>
                    data'.manga[i].updatedAt > data.manga[i].updatedAt]_vars

\* C6's case: a title has been updated after the clock moved on, by updates
\* that carried an updatedAt of their own.
C6_Witness ==
    /\ last.op = "updateManga"
    /\ last.ret # Null
    /\ "updatedAt" \in DOMAIN last.args[2]
    /\ last.ret[1].updatedAt > last.ret[1].createdAt

\* C7: in every reachable store state, deleteManga(id) followed by
\* getManga(id) finds no record.
C7_DeletedIsNotFound ==
    last.op = "deleteManga" => GetManga(data, last.args[1]) = 0

\* C8: in every reachable state no two titles of the store share an id (an
\* id addManga assigned is never assigned again).
C8_TitleIdsUnique ==
    \A i, j \in 1..Len(data.manga) :
        data.manga[i].id = data.manga[j].id => i = j

\* C9: a timer session bound to an existing title with currentChapter p,
\* stopped with n > 0 chapters read, leaves the title at p + n, exactly one
\* more closed session, and exactly one more history entry, a 'read' entry
\* for that title.
C9_StopAdvancesAndRecords ==
    [][((Ran("stopTimer") \/ Ran("toggleTimer")) /\ activeTimer # 0) =>
        LET n == IF last'.op = "stopTimer" THEN last'.args[1]
                 ELSE last'.args[2]
            s == data.readingSessions[activeTimer]
        IN (n > 0 /\ s.mangaId # NoId /\ GetManga(data, s.mangaId) # 0) =>
            LET i == GetManga(data, s.mangaId)
            IN /\ data'.manga[i].currentChapter
                    = data.manga[i].currentChapter + n
               /\ Cardinality(ClosedSessions(data'))
                    = Cardinality(ClosedSessions(data)) + 1
               /\ data'.history
                    = Take(<<data'.history[1]>> \o data.history, HistoryCap)
               /\ data'.history[1].action = "read"
               /\ data'.history[1].mangaId = s.mangaId]_vars

\* case-insensitive containment, character by character
ContainsIgnoringCase(t, q) ==
    \E off \in 0..(Len(t) - Len(q)) :
        \A k \in 1..Len(q) : LowerChar(t[off + k]) = LowerChar(q[k])

MatchesQuery(m, q) ==
    \/ ContainsIgnoringCase(m.title, q)
    \/ ContainsIgnoringCase(m.author, q)
    \/ \E k \in 1..Len(m.tags) : ContainsIgnoringCase(m.tags[k], q)

\* res lists exactly the titles at the positions idx, in store order
ListsInOrder(res, doc, idx) ==
    /\ Len(res) = Cardinality(idx)
    /\ \A k \in 1..Len(res) :
        \E i \in idx :
            /\ Cardinality({j \in idx : j < i}) = k - 1
            /\ res[k] = doc.manga[i]

\* C10: searchManga(query, {status: s}) with a non-empty query returns
\* exactly the titles whose title, author or some tag contains the query
\* case-insensitively and whose status equals s, in store order.
C10_SearchByQueryAndStatus ==
    (/\ last.op = "searchManga"
     /\ last.args[1] # <<>>
     /\ last.args[2].status # ""
     /\ last.args[2].type = ""
     /\ last.args[2].tags = <<>>) =>
        ListsInOrder(last.ret, data,
            {i \in 1..Len(data.manga) :
                /\ MatchesQuery(data.manga[i], last.args[1])
                /\ data.manga[i].status = last.args[2].status})

\* C10's case: "sw" is searched with status reading over a "SwA" that is
\* being read and a "SwA" that is completed, and exactly the first comes back.
C10_Witness ==
    /\ last.op = "searchManga"
    /\ last.args[1] = << "s", "w" >>
    /\ last.args[2] = [status |-> "reading", type |-> "", tags |-> <<>>]
    /\ Len(data.manga) = 2
    /\ data.manga[1].title = data.manga[2].title
    /\ data.manga[1].status = "reading"
    /\ data.manga[2].status = "completed"
    /\ MatchesQuery(data.manga[2], last.args[1])
    /\ last.ret = << data.manga[1] >>

\* C11: getStatistics on a store with no titles and no sessions returns zero
\* for every count and progress total, and averageSessionTime is 0 whenever
\* no session is closed, also when only active sessions exist.
C11_StatisticsOfNothing ==
    last.op = "getStatistics" =>
        /\ (Len(data.manga) = 0 /\ Len(data.readingSessions) = 0) =>
                \A f \in DOMAIN last.ret : last.ret[f] = 0
        /\ ClosedSessions(data) = {} => last.ret.averageSessionTime = 0

\* C11's case: statistics were taken while sessions exist and all of them
\* are active.
C11_Witness ==
    /\ last.op = "getStatistics"
    /\ Len(data.readingSessions) = 2
    /\ ClosedSessions(data) = {}
    /\ last.ret.averageSessionTime = 0
    /\ last.ret.totalReadingSessions = 0

\* C12: a search never mutates the store: for every query and filter set,
\* the empty query with no filters included, searchManga followed by the
\* callers' sort of its result (filterManga, searchLibrary) leaves the
\* store's titles unchanged, the order of the records included.
C12_SearchLeavesStore ==
    [][(Ran("filterManga") \/ Ran("searchLibrary")) =>
            data'.manga = data.manga]_vars

\* C13: when blob-store writes succeed, after every operation returns the
\* persisted document equals the in-memory document: no operation (mutation,
\* query, statistics or view refresh) that starts with the two equal leaves
\* them different.
C13_PersistedEqualsMemory ==
    [][stored = <<data>> => stored' = <<data'>>]_vars

\* C19: on the quick-update path (quickUpdateProgress -> updateProgress),
\* setting a title's progress to a value that reaches or exceeds its known
\* totalChapters sets the title's status to 'completed'; a title whose
\* totalChapters is unknown (null) keeps its status.
C19_QuickUpdateCompletes ==
    [][(/\ Ran("quickUpdateProgress")
        /\ GetManga(data, last'.args[1]) # 0
        /\ last'.args[2] >= 0) =>
            LET rec == data.manga[GetManga(data, last'.args[1])]
                n == last'.args[2]
                Updated(status) ==
                    \E j \in 1..Len(data'.manga) :
                        /\ data'.manga[j].id = rec.id
                        /\ data'.manga[j].title = rec.title
                        /\ data'.manga[j].currentChapter = n
                        /\ data'.manga[j].status = status
            IN /\ Len(data'.manga) = Len(data.manga)
               /\ (rec.totalChapters # 0 /\ n >= rec.totalChapters) =>
                    Updated("completed")
               /\ rec.totalChapters = 0 => Updated(rec.status)]_vars

\* C19's case: a title of two chapters that was being read has been set to
\* chapter 2 from its card, beside a title of unknown length.
C19_Witness ==
    /\ last.op = "quickUpdateProgress"
    /\ last.args[2] = 2
    /\ Len(data.manga) = 2
    /\ \E j \in 1..Len(data.manga) :
            /\ data.manga[j].id = last.args[1]
            /\ data.manga[j].totalChapters = 2
            /\ data.manga[j].currentChapter = 2
            /\ data.manga[j].status = "completed"
    /\ \E j \in 1..Len(data.manga) :
            /\ data.manga[j].totalChapters = 0
            /\ data.manga[j].status = "on-hold"
    /\ Len(data.history) = 1
    /\ data.history[1].action = "progress_update"

\* the in-memory document and the return value of the step are those of a
\* call whose result is doc and ret, and the persisted document is untouched
KeepsMemoryOnly(doc, ret) ==
    /\ data' = doc
    /\ last'.ret = ret
    /\ stored' = stored

C15_NotFoundChangesNothing ==
    [][(\/ (Ran("updateManga") \/ Ran("deleteManga"))
                /\ last'.args[1] \notin MangaIds(data)
        \/ Ran("removeBookmark") /\ last'.args[1] \notin BookmarkIds(data)
        \/ Ran("endReadingSession") /\ last'.args[1] \notin SessionIds(data))
        => /\ last'.ret = Null
           /\ data' = data
           /\ stored' = stored]_vars

\* C15's case: a bookmark was asked for by an id no bookmark has, in a store
\* that holds a title, a session and a bookmark.
C15_Witness ==
    /\ last.op = "removeBookmark"
    /\ last.args[1] \notin BookmarkIds(data)
    /\ last.ret = Null
    /\ Len(data.bookmarks) = 1
    /\ Len(data.manga) = 1
    /\ Len(data.readingSessions) > 0
    /\ stored = <<data>>

\* C16: endReadingSession with unitsRead > 0 on a session bound to an
\* existing title is atomic with respect to persisted state: the persisted
\* document never shows the session as this call closed it while the title's
\* currentChapter is not yet the advanced one, also when a later write fails.
C16_PersistedCloseIsAtomic ==
    [][(/\ Ran("endReadingSession")
        /\ AdvancesProgress(data, last'.args[1], last'.args[2])
        /\ stored' # <<>>) =>
            LET sessionId == last'.args[1]
                index == FindIndexById(data.readingSessions, sessionId)
                i == GetManga(data, data.readingSessions[index].mangaId)
                p == stored'[1]
            IN (/\ Len(p.readingSessions) >= index
                /\ p.readingSessions[index] = data'.readingSessions[index]
                /\ (stored = <<>>
                        \/ stored[1].readingSessions # p.readingSessions)) =>
                    /\ Len(p.manga) >= i
                    /\ p.manga[i].currentChapter
                            = data'.manga[i].currentChapter]_vars

\* the step is a stop of the running timer, by stopTimer or by toggleTimer
StopsTimer == (Ran("stopTimer") \/ Ran("toggleTimer")) /\ activeTimer # 0

\* the step put one 'read' entry at the head of the history
AppendsReadEntry ==
    /\ Len(data'.history) = Len(data.history) + 1
    /\ data'.history[1].action = "read"
    /\ SubSeq(data'.history, 2, Len(data'.history)) = data.history

\* C17 as claimed: Session Timer stop appends a 'read' history entry exactly
\* when endReadingSession succeeded (returned the closed session) and that
\* session, the one the timer runs, has a titleId; it appends none when
\* endReadingSession reported not found or the session is untied.
C17_ReadEntryIffTiedSession ==
    [][StopsTimer =>
        LET s == data.readingSessions[activeTimer]
        IN IF FindIndexById(data.readingSessions, s.id) # 0
                /\ s.mangaId # NoId
           THEN AppendsReadEntry
           ELSE data'.history = data.history]_vars

\* C17 as amended: stop appends a 'read' entry exactly when the timer's
\* session has a titleId and that title is still in the store; it appends
\* none when the session is untied or its title is gone.
C17_ReadEntryIffTitleFound ==
    [][StopsTimer =>
        LET s == data.readingSessions[activeTimer]
        IN IF s.mangaId # NoId /\ GetManga(data, s.mangaId) # 0
           THEN /\ AppendsReadEntry
                /\ data'.history[1].mangaId = s.mangaId
           ELSE data'.history = data.history]_vars

\* C17's case: the timer of a session bound to the second of two titles was
\* stopped and the 'read' entry for that title is in the history.
C17_Witness ==
    /\ last.op \in {"stopTimer", "toggleTimer"}
    /\ activeTimer = 0
    /\ Len(data.manga) = 2
    /\ Len(data.history) = 1
    /\ data.history[1].action = "read"
    /\ data.history[1].mangaId = data.manga[2].id
    /\ data.manga[1].id # data.manga[2].id
    /\ \E i \in ClosedSessions(data) :
            data.readingSessions[i].mangaId = data.manga[2].id

\* C18: toggleTimer stops the active session whenever the Record Store has
\* an active session (getActiveSession returns one) and starts a new session
\* only when the store has none.
C18_ToggleFollowsStore ==
    [][Ran("toggleTimer") =>
        IF GetActiveSession(data) # 0
        THEN /\ Len(data'.readingSessions) = Len(data.readingSessions)
             /\ ActiveSessions(data') \subseteq ActiveSessions(data)
             /\ ActiveSessions(data') # ActiveSessions(data)
        ELSE /\ Len(data'.readingSessions) = Len(data.readingSessions) + 1
             /\ ActiveSessions(data') = {Len(data'.readingSessions)}]_vars

\* C20: startReadingSession called directly while another session is active
\* is not rejected: it appends a second session with active = true (so two
\* active sessions are reachable through the Record Store alone), and
\* getActiveSession then returns the earliest-started active session.
C20_SecondSessionIsAppended ==
    /\ [][Ran("startReadingSession") =>
            /\ last'.ret # Null
            /\ last'.ret[1].active
            /\ data'.readingSessions
                    = Append(data.readingSessions, last'.ret[1])]_vars
    /\ [](GetActiveSession(data) # 0 =>
            /\ data.readingSessions[GetActiveSession(data)].active
            /\ \A j \in ActiveSessions(data) :
                /\ GetActiveSession(data) <= j
                /\ data.readingSessions[GetActiveSession(data)].startTime
                        <= data.readingSessions[j].startTime)

\* C20's case: a session was started directly while an earlier one was
\* still active; both are active and getActiveSession finds the earlier.
C20_Witness ==
    /\ last.op = "startReadingSession"
    /\ Len(data.readingSessions) = 2
    /\ ActiveSessions(data) = {1, 2}
    /\ data.readingSessions[1].startTime < data.readingSessions[2].startTime
    /\ data.readingSessions[2] = last.ret[1]
    /\ GetActiveSession(data) = 1

\* C21: when the writes of the blob store succeed, a reload (a new
\* MangaTracker built from the persisted blob, then setupTimerButton)
\* restores a document equal to the in-memory document before the reload,
\* and the timer's session is then the store's getActiveSession() result.
C21_ReloadRestoresMemory ==
    [][Ran("reload") =>
            /\ data' = data
            /\ activeTimer' = GetActiveSession(data')]_vars

\* C22: after any sequence of timer and store operations driven through
\* the page, the controller's activeTimer is non-null exactly when the store
\* has a session with active = true, and it then refers to that session.
C22_TimerMirrorsStore ==
    /\ activeTimer # 0 <=> ActiveSessions(data) # {}
    /\ activeTimer # 0 => activeTimer \in ActiveSessions(data)

\* the same, over stores whose session ids are all different
C22_TimerMirrorsStoreOfDistinctIds ==
    Cardinality(SessionIds(data)) = Len(data.readingSessions) =>
        /\ activeTimer # 0 <=> ActiveSessions(data) # {}
        /\ activeTimer # 0 => activeTimer \in ActiveSessions(data)

\* C23: endReadingSession is idempotent on progress: called again on a
\* session that is already closed, it does not advance the currentChapter
\* of the bound title a second time and does not change the session's
\* recorded endTime or chaptersRead.
C23_EndClosedSessionChangesNothing ==
    [][Ran("endReadingSession") =>
        LET index == FindIndexById(data.readingSessions, last'.args[1])
        IN (index # 0 /\ ~data.readingSessions[index].active) =>
            /\ Len(data'.manga) = Len(data.manga)
            /\ \A i \in 1..Len(data.manga) :
                data'.manga[i].currentChapter = data.manga[i].currentChapter
            /\ data'.readingSessions[index].endTime
                    = data.readingSessions[index].endTime
            /\ data'.readingSessions[index].chaptersRead
                    = data.readingSessions[index].chaptersRead]_vars

\* the records of a collection that refer to title id
RefersTo(list, id) == {i \in 1..Len(list) : list[i].mangaId = id}

\* C24: deleteManga removes only the title record: the sessions, bookmarks
\* and history entries that refer to the deleted id stay in the store; and a
\* later endReadingSession on a session bound to a deleted title (its
\* mangaId is the id of no title of the store) closes the session, returns
\* it and leaves the title collection unchanged.
C24_DeleteRemovesTitleOnly ==
    /\ [][Ran("deleteManga") =>
            LET index == FindIndexById(data.manga, last'.args[1])
            IN /\ data'.readingSessions = data.readingSessions
               /\ data'.bookmarks = data.bookmarks
               /\ data'.history = data.history
               /\ index # 0 =>
                    /\ data'.manga = RemoveAt(data.manga, index)
                    /\ last'.ret = <<data.manga[index]>>]_vars
    /\ [][Ran("endReadingSession") =>
            LET index == FindIndexById(data.readingSessions, last'.args[1])
            IN (/\ index # 0
                /\ data.readingSessions[index].mangaId # NoId
                /\ GetManga(data, data.readingSessions[index].mangaId) = 0) =>
                /\ data'.manga = data.manga
                /\ ~data'.readingSessions[index].active
                /\ last'.ret = <<data'.readingSessions[index]>>]_vars

\* a session bound to a deleted title has just been closed with one
\* chapter read, and a bookmark and a history entry still refer to the title
C24_Witness ==
    /\ last.op = "endReadingSession"
    /\ last.ret # Null
    /\ last.args[2] = 1
    /\ last.ret[1].mangaId # NoId
    /\ GetManga(data, last.ret[1].mangaId) = 0
    /\ data.manga = <<>>
    /\ RefersTo(data.bookmarks, last.ret[1].mangaId) # {}
    /\ RefersTo(data.history, last.ret[1].mangaId) # {}

\* C25: every closed session recorded through the stop of the session timer
\* has chaptersRead >= 0, whatever the user enters in the stop prompt, so
\* the daily, weekly and monthly progress totals are never negative.
C25_ProgressTotalsNotNegative ==
    /\ \A i \in ClosedSessions(data) :
            data.readingSessions[i].chaptersRead >= 0
    /\ GetDailyProgress(data, now) >= 0
    /\ GetWeeklyProgress(data, now) >= 0
    /\ \A monthDays \in MonthDays :
            GetMonthlyProgress(data, now, monthDays) >= 0

\* C26: after any sequence of operations driven through the page (the
\* add-title form, the quick progress update, timer start and stop), the
\* currentChapter of every title is a non-negative integer.
C26_CurrentChapterNotNegative ==
    \A i \in 1..Len(data.manga) :
        /\ data.manga[i].currentChapter \in Int
        /\ data.manga[i].currentChapter >= 0

HistoryIds(doc) == {doc.history[i].id : i \in 1..Len(doc.history)}

\* C27: no persisted change is lost: with the two MangaTracker instances
\* over the same storage key, a title, session or history entry that is in
\* the persisted document stays in it after any later mutation, through
\* either instance, until it is explicitly deleted.
C27_NoPersistedChangeIsLost ==
    [][/\ \A id \in MangaIds(LoadData(stored)) :
            \/ id \in MangaIds(LoadData(stored'))
            \/ Ran("deleteManga") /\ last'.args[1] = id
       /\ SessionIds(LoadData(stored)) \subseteq SessionIds(LoadData(stored'))
       /\ HistoryIds(LoadData(stored)) \subseteq HistoryIds(LoadData(stored'))
      ]_vars

\* C28 as claimed: updateManga preserves the identity and position of
\* records: for every update payload, the number of titles, their order and
\* the id of every title (the updated one included) are the same after the
\* call as before, and only the record that matched the id is changed.
C28_UpdateKeepsEveryId ==
    [][Ran("updateManga") =>
        LET index == FindIndexById(data.manga, last'.args[1])
        IN /\ Len(data'.manga) = Len(data.manga)
           /\ \A i \in 1..Len(data.manga) :
                /\ data'.manga[i].id = data.manga[i].id
                /\ i # index => data'.manga[i] = data.manga[i]]_vars

\* C28 as amended: the number of titles, their order and every record other
\* than the one that matched the id are the same after the call as before,
\* and so is every other collection; the matched record keeps its place, and
\* it keeps its id when the payload carries no id or the record's own id
\* (otherwise it takes the payload's id).
C28_UpdateKeepsPlace ==
    [][Ran("updateManga") =>
        LET index == FindIndexById(data.manga, last'.args[1])
            upd == last'.args[2]
        IN /\ Len(data'.manga) = Len(data.manga)
           /\ \A i \in 1..Len(data.manga) :
                i # index => data'.manga[i] = data.manga[i]
           /\ [data' EXCEPT !.manga = data.manga] = data
           /\ index # 0 =>
                /\ \A f \in DOMAIN data.manga[index] \ (DOMAIN upd
                                                        \cup {"updatedAt"}) :
                        data'.manga[index][f] = data.manga[index][f]
                /\ "id" \notin DOMAIN upd =>
                        data'.manga[index].id = data.manga[index].id
                /\ "id" \in DOMAIN upd =>
                        data'.manga[index].id = upd.id]_vars

\* C28's case: the first of two titles has been updated by a payload that
\* carries the record's own id, and is still the first.
C28_Witness ==
    /\ last.op = "updateManga"
    /\ last.ret # Null
    /\ last.args[2] = ("id" :> last.args[1])
    /\ Len(data.manga) = 2
    /\ data.manga[1].id = last.args[1]
    /\ data.manga[2].id # last.args[1]
    /\ data.manga[1].updatedAt > data.manga[1].createdAt

\* C29: read-only views leave the store untouched: loading the analytics
\* view (getStatistics, getRecentActivity, getTopMangaByChapters,
\* getTagFrequency, getTypeDistribution) changes neither the contents nor
\* the order of any collection of the in-memory document.
C29_AnalyticsLeavesStore ==
    [][Ran("loadAnalytics") => data' = data]_vars

\* C30: session closure is permanent and sessions are never removed: once a
\* session has active = false no operation sets it back to active = true,
\* and no operation deletes a session from readingSessions (each stays at
\* its place), so the count of closed sessions never decreases.
C30_ClosedStaysClosed ==
    [][/\ Len(data'.readingSessions) >= Len(data.readingSessions)
       /\ \A i \in 1..Len(data.readingSessions) :
            /\ data'.readingSessions[i].id = data.readingSessions[i].id
            /\ data'.readingSessions[i].startTime
                    = data.readingSessions[i].startTime
            /\ ~data.readingSessions[i].active =>
                    ~data'.readingSessions[i].active
       /\ Cardinality(ClosedSessions(data'))
            >= Cardinality(ClosedSessions(data))]_vars

\* C30's case: a closed session has been ended a second time, a clock tick
\* after it was started, and is still closed and still the first of two
\* sessions; the other one is active.
C30_Witness ==
    /\ last.op = "endReadingSession"
    /\ last.ret # Null
    /\ Len(data.readingSessions) = 2
    /\ data.readingSessions[1].id = last.args[1]
    /\ ~data.readingSessions[1].active
    /\ data.readingSessions[1].startTime = 0
    /\ data.readingSessions[1].endTime = 1
    /\ data.readingSessions[2].active
    /\ data.readingSessions[2].startTime = 0
    /\ data.readingSessions[2].id = last.args[1]

====
